---- MODULE Spec2Model ----
(***************************************************************************)
(* GetOpt (dshess/GetOpt): a descriptor-driven "--option" parser.          *)
(* GetOptions(args, a...) registers the (descriptor, pointer) pairs of a   *)
(* in an optionCollection (parseOptions / parseOption), then scans args    *)
(* (processArgs): every option token makes its handler create a committer, *)
(* and the committers are run, in order, once the scan loop has ended      *)
(* without an error.                                                       *)
(*                                                                         *)
(* A Go string is a sequence of one-character strings (its runes), so      *)
(* that prefix tests, IndexRune, slicing and the strconv conversions are   *)
(* computed, not assumed.                                                  *)
(***************************************************************************)
EXTENDS Integers, Sequences, FiniteSets, TLC

VARIABLES
    pc,          \* where GetOptions is: "parseOptions", "processArgs", "done"
    args,        \* the args parameter of GetOptions (never written)
    a,           \* the variadic a of parseOptions, sliced as pairs are taken
    handlers,    \* oc.handlers: option name -> handler
    committers,  \* oc.committers
    rest,        \* processArgs' rest
    mem,         \* the caller's variables the pointers of a point to
    ret,         \* the slice GetOptions returned
    err,         \* the error GetOptions returned ("nil": none)
    osArgs,      \* os.Args
    calls,       \* the number of calls of GetOptions made, this one included
    re,          \* the variable re captured by descRe ("nil": no pattern)
    compiled     \* the number of calls of regexp.Compile made by descRe

vars == <<pc, args, a, handlers, committers, rest, mem, ret, err, osArgs,
          calls, re, compiled>>

\* The longest token list GetOptions is called with.
MaxArgs == 3

(***************************************************************************)
(* strings                                                                 *)
(***************************************************************************)

\* strings.HasPrefix(s, prefix)
HasPrefix(s, prefix) ==
    /\ Len(s) >= Len(prefix)
    /\ SubSeq(s, 1, Len(prefix)) = prefix

\* strings.IndexRune(s, r): the 0-based index of the first r in s, or -1
IndexRune(s, r) ==
    IF \E i \in 1..Len(s) : s[i] = r
    THEN (CHOOSE i \in 1..Len(s) :
              s[i] = r /\ \A j \in 1..(i - 1) : s[j] # r) - 1
    ELSE -1

\* the Go slice expressions s[lo:] and s[:hi], 0-based
SliceFrom(s, lo) == SubSeq(s, lo + 1, Len(s))
SliceTo(s, hi) == SubSeq(s, 1, hi)

Digits == {"0", "1", "2", "3", "4", "5", "6", "7", "8", "9"}

DigitVal(c) ==
    CASE c = "0" -> 0 [] c = "1" -> 1 [] c = "2" -> 2 [] c = "3" -> 3
      [] c = "4" -> 4 [] c = "5" -> 5 [] c = "6" -> 6 [] c = "7" -> 7
      [] c = "8" -> 8 [] c = "9" -> 9

RECURSIVE DecVal(_)
DecVal(s) ==
    IF s = <<>> THEN 0
    ELSE DecVal(SubSeq(s, 1, Len(s) - 1)) * 10 + DigitVal(s[Len(s)])

\* strconv.Atoi(s): an optional sign, then one or more decimal digits; all
\* else is a syntax error.  (The tokens of the model are far shorter than
\* the 19 digits at which Atoi reports a range error.)
Atoi(s) ==
    LET signed == Len(s) > 0 /\ s[1] \in {"-", "+"}
        body == IF signed THEN Tail(s) ELSE s
    IN  IF Len(body) < 1 \/ \E i \in 1..Len(body) : body[i] \notin Digits
        THEN [err |-> "invalid syntax", v |-> 0]
        ELSE [err |-> "nil",
              v |-> IF signed /\ s[1] = "-" THEN 0 - DecVal(body)
                    ELSE DecVal(body)]

\* strconv.ParseFloat(s, 64) on the strings the model can build: an optional
\* sign and decimal digits with at most one '.', at least one digit in all.
\* The value is the pair <<mantissa, number of fraction digits>> with the
\* trailing fraction zeros dropped, so that "1", "1." and "1.0" are one
\* value.  Exponents, hexadecimal mantissas, underscores, "inf" and "nan"
\* need runes (e, p, _, i, a) that no token of the model holds.
RECURSIVE FloatNorm(_, _)
FloatNorm(m, k) ==
    IF k > 0 /\ m % 10 = 0 THEN FloatNorm(m \div 10, k - 1) ELSE <<m, k>>

ParseFloat(s) ==
    LET signed == Len(s) > 0 /\ s[1] \in {"-", "+"}
        body == IF signed THEN Tail(s) ELSE s
        dot == IndexRune(body, ".")
        ip == IF dot = -1 THEN body ELSE SliceTo(body, dot)
        fp == IF dot = -1 THEN <<>> ELSE SliceFrom(body, dot + 1)
        bad == \/ Len(ip) + Len(fp) < 1
               \/ \E i \in 1..Len(ip) : ip[i] \notin Digits
               \/ \E i \in 1..Len(fp) : fp[i] \notin Digits
        mag == FloatNorm(DecVal(ip \o fp), Len(fp))
    IN  IF bad THEN [err |-> "invalid syntax", v |-> <<0, 0>>]
        ELSE [err |-> "nil",
              v |-> IF signed /\ s[1] = "-" THEN <<0 - mag[1], mag[2]>>
                    ELSE mag]

(***************************************************************************)
(* committers and handlers                                                 *)
(***************************************************************************)

optionNoArg == 0
optionOptionalArg == 1
optionRequiredArg == 2

\* optionSimpleCommitter[T]{value, option}
optionSimpleCommitter(value, option) ==
    [c |-> "simple", value |-> value, option |-> option]

\* optionCountingCommitter{option}
optionCountingCommitter(option) ==
    [c |-> "counting", value |-> 1, option |-> option]

\* optionArrayCommitter[T]{value, option}
optionArrayCommitter(value, option) ==
    [c |-> "array", value |-> value, option |-> option]

\* committerCommit with the bug of a counting committer that stores its
\* increment in place of adding it
committerCommitCountSet(o, m) ==
    CASE o.c = "simple" -> [m EXCEPT ![o.option] = o.value]
      [] o.c = "counting" -> [m EXCEPT ![o.option] = o.value]
      [] o.c = "array" -> [m EXCEPT ![o.option] = Append(@, o.value)]

\* the commit method of the three committers, on the caller's memory m
committerCommit(o, m) ==
    CASE o.c = "simple" -> [m EXCEPT ![o.option] = o.value]
      [] o.c = "counting" -> [m EXCEPT ![o.option] = @ + 1]
      [] o.c = "array" -> [m EXCEPT ![o.option] = Append(@, o.value)]

\* commit with the bug of running the committers last to first
RECURSIVE commitReversed(_, _)
commitReversed(cs, m) ==
    IF cs = <<>> THEN m
    ELSE commitReversed(SubSeq(cs, 1, Len(cs) - 1),
                        committerCommit(cs[Len(cs)], m))

\* optionCollection.commit: every committer, in slice order
RECURSIVE commit(_, _)
commit(cs, m) ==
    IF cs = <<>> THEN m
    ELSE commit(Tail(cs), committerCommit(Head(cs), m))

\* a handler object: h names its Go type, t is its optionType, value the
\* constant of an optionSimpleHandler, option the pointer
Handler(h, t, value, option) ==
    [h |-> h, t |-> t, value |-> value, option |-> option]

getType(oh) == oh.t

\* the handle methods; as[1] is args[0].  The array handlers index args[0]
\* unguarded: with no value Go panics.
handle(oh, as) ==
    LET none == optionSimpleCommitter(FALSE, oh.option)
        panic == [err |-> "panic: index out of range", c |-> none]
    IN
    CASE oh.h = "optionSimpleHandler" ->
           [err |-> "nil", c |-> optionSimpleCommitter(oh.value, oh.option)]
      [] oh.h = "optionCountingHandler" ->
           [err |-> "nil", c |-> optionCountingCommitter(oh.option)]
      [] oh.h = "optionIntHandler" ->
           LET r == Atoi(IF Len(as) < 1 THEN <<"0">> ELSE as[1])
           IN  [err |-> r.err, c |-> optionSimpleCommitter(r.v, oh.option)]
      [] oh.h = "optionIntArrayHandler" ->
           IF Len(as) < 1 THEN panic
           ELSE LET r == Atoi(as[1])
                IN  [err |-> r.err, c |-> optionArrayCommitter(r.v, oh.option)]
      [] oh.h = "optionFloatHandler" ->
           LET r == ParseFloat(IF Len(as) < 1 THEN <<"0">> ELSE as[1])
           IN  [err |-> r.err, c |-> optionSimpleCommitter(r.v, oh.option)]
      [] oh.h = "optionFloatArrayHandler" ->
           IF Len(as) < 1 THEN panic
           ELSE LET r == ParseFloat(as[1])
                IN  [err |-> r.err, c |-> optionArrayCommitter(r.v, oh.option)]
      [] oh.h = "optionStringHandler" ->
           [err |-> "nil",
            c |-> optionSimpleCommitter(IF Len(as) < 1 THEN <<>> ELSE as[1],
                                        oh.option)]
      [] oh.h = "optionStringArrayHandler" ->
           IF Len(as) < 1 THEN panic
           ELSE [err |-> "nil", c |-> optionArrayCommitter(as[1], oh.option)]

(***************************************************************************)
(* registration: parseOption, parseOptions                                 *)
(***************************************************************************)

\* the pattern regexp.Compile makes of the descriptor grammar
Pattern == "^([-_a-zA-Z0-9]+)([=:][bifs])?([!+@])?$"

\* descRe(), called with the captured variable re holding cached: the
\* pattern returned (ret), the captured variable afterwards (re) and the
\* calls of regexp.Compile made (compiles).  "re, err := regexp.Compile"
\* declares a new re in the scope of the function literal, so that the
\* captured variable is not assigned.
descRe(cached) ==
    IF cached # "nil"
    THEN [ret |-> cached, re |-> cached, compiles |-> 0]
    ELSE [ret |-> Pattern, re |-> cached, compiles |-> 1]

\* the runes of the class [-_a-zA-Z0-9]
NameRunes ==
    {"-", "_"} \cup Digits \cup
    {"a", "b", "c", "d", "e", "f", "g", "h", "i", "j", "k", "l", "m",
     "n", "o", "p", "q", "r", "s", "t", "u", "v", "w", "x", "y", "z",
     "A", "B", "C", "D", "E", "F", "G", "H", "I", "J", "K", "L", "M",
     "N", "O", "P", "Q", "R", "S", "T", "U", "V", "W", "X", "Y", "Z"}

\* the number of leading runes of s that are in the set cls
RECURSIVE Span(_, _)
Span(s, cls) ==
    IF s # <<>> /\ Head(s) \in cls THEN 1 + Span(Tail(s), cls) ELSE 0

\* FindStringSubmatch with the bug of a pattern without the final '$':
\* what follows the match is not looked at
FindStringSubmatchUnanchored(desc) ==
    LET n == Span(desc, NameRunes)
        tail == SliceFrom(desc, n)
        typed == /\ Len(tail) >= 2
                 /\ tail[1] \in {"=", ":"}
                 /\ tail[2] \in {"b", "i", "f", "s"}
        g2 == IF typed THEN SliceTo(tail, 2) ELSE <<>>
        after == SliceFrom(tail, Len(g2))
        g3 == IF Len(after) >= 1 /\ after[1] \in {"!", "+", "@"}
              THEN SliceTo(after, 1) ELSE <<>>
    IN  IF n >= 1 THEN <<SliceTo(desc, n), g2, g3>> ELSE <<>>

\* re.FindStringSubmatch(desc) for ^([-_a-zA-Z0-9]+)([=:][bifs])?([!+@])?$ :
\* <<>> for no match (nil), else <<match[1], match[2], match[3]>>.  Group 1
\* is greedy and no later group can start with a name rune, so group 1 is
\* the longest prefix of name runes and what follows it must be an optional
\* two-rune type group and an optional modifier rune, and nothing else.
FindStringSubmatch(desc) ==
    LET n == Span(desc, NameRunes)
        tail == SliceFrom(desc, n)
        typed == /\ Len(tail) >= 2
                 /\ tail[1] \in {"=", ":"}
                 /\ tail[2] \in {"b", "i", "f", "s"}
        g2 == IF typed THEN SliceTo(tail, 2) ELSE <<>>
        after == SliceFrom(tail, Len(g2))
        g3 == IF Len(after) >= 1 /\ after[1] \in {"!", "+", "@"}
              THEN SliceTo(after, 1) ELSE <<>>
    IN  IF n >= 1 /\ Len(after) = Len(g3)
        THEN <<SliceTo(desc, n), g2, g3>>
        ELSE <<>>

\* probe with the bug of never setting pArray
probeNoArray(ptr) ==
    CASE ptr.ty = "*bool" -> <<"b", FALSE>>
      [] ptr.ty \in {"*int", "*[]int"} -> <<"i", FALSE>>
      [] ptr.ty \in {"*float64", "*[]float64"} -> <<"f", FALSE>>
      [] ptr.ty \in {"*string", "*[]string"} -> <<"s", FALSE>>
      [] OTHER -> <<"?", FALSE>>

\* probe with the bug of a case for *[]bool
probeBoolSlice(ptr) ==
    CASE ptr.ty = "*bool" -> <<"b", FALSE>>
      [] ptr.ty = "*[]bool" -> <<"b", TRUE>>
      [] ptr.ty = "*int" -> <<"i", FALSE>>
      [] ptr.ty = "*[]int" -> <<"i", TRUE>>
      [] ptr.ty = "*float64" -> <<"f", FALSE>>
      [] ptr.ty = "*[]float64" -> <<"f", TRUE>>
      [] ptr.ty = "*string" -> <<"s", FALSE>>
      [] ptr.ty = "*[]string" -> <<"s", TRUE>>
      [] OTHER -> <<"?", FALSE>>

\* the type switch of parseOption on ptr: <<pType, pArray>>, pType "?" for
\* the default case
probe(ptr) ==
    CASE ptr.ty = "*bool" -> <<"b", FALSE>>
      [] ptr.ty = "*int" -> <<"i", FALSE>>
      [] ptr.ty = "*[]int" -> <<"i", TRUE>>
      [] ptr.ty = "*float64" -> <<"f", FALSE>>
      [] ptr.ty = "*[]float64" -> <<"f", TRUE>>
      [] ptr.ty = "*string" -> <<"s", FALSE>>
      [] ptr.ty = "*[]string" -> <<"s", TRUE>>
      [] OTHER -> <<"?", FALSE>>

negatedName(name) == <<"n", "o">> \o name

\* checkNameConflict with the bug of finding no conflict
checkNameConflictNever(hs, name, negatable) == "nil"

\* checkNameConflict with the bug of not looking for the negated name
checkNameConflictNameOnly(hs, name, negatable) ==
    IF name \in DOMAIN hs THEN "option already exists" ELSE "nil"

\* optionCollection.checkNameConflict on the handlers map hs
checkNameConflict(hs, name, negatable) ==
    IF name \in DOMAIN hs THEN "option already exists"
    ELSE IF negatable /\ negatedName(name) \in DOMAIN hs
         THEN "option already exists"
         ELSE "nil"

\* oc.handlers[name] = h
SetHandler(hs, name, h) == (name :> h) @@ hs

addSimpleHandler(hs, name, option) ==
    SetHandler(hs, name,
               Handler("optionSimpleHandler", optionNoArg, TRUE, option))

\* addNegatableHandler with the bug of not adding the negated name
addNegatableHandlerPositiveOnly(hs, name, option) ==
    SetHandler(hs, name,
               Handler("optionSimpleHandler", optionNoArg, TRUE, option))

addNegatableHandler(hs, name, option) ==
    SetHandler(
        SetHandler(hs, name,
                   Handler("optionSimpleHandler", optionNoArg, TRUE, option)),
        negatedName(name),
        Handler("optionSimpleHandler", optionNoArg, FALSE, option))

addCountingHandler(hs, name, option) ==
    SetHandler(hs, name,
               Handler("optionCountingHandler", optionNoArg, FALSE, option))

addIntHandler(hs, name, option) ==
    SetHandler(hs, name,
               Handler("optionIntHandler", optionRequiredArg, FALSE, option))

addOptionalIntHandler(hs, name, option) ==
    SetHandler(hs, name,
               Handler("optionIntHandler", optionOptionalArg, FALSE, option))

\* addIntArrayHandler with the bug of the optional arity
addIntArrayHandlerOptional(hs, name, option) ==
    SetHandler(hs, name,
               Handler("optionIntArrayHandler", optionOptionalArg, FALSE,
                       option))

addIntArrayHandler(hs, name, option) ==
    SetHandler(hs, name,
               Handler("optionIntArrayHandler", optionRequiredArg, FALSE,
                       option))

addFloatHandler(hs, name, option) ==
    SetHandler(hs, name,
               Handler("optionFloatHandler", optionRequiredArg, FALSE, option))

addOptionalFloatHandler(hs, name, option) ==
    SetHandler(hs, name,
               Handler("optionFloatHandler", optionOptionalArg, FALSE, option))

addFloatArrayHandler(hs, name, option) ==
    SetHandler(hs, name,
               Handler("optionFloatArrayHandler", optionRequiredArg, FALSE,
                       option))

addStringHandler(hs, name, option) ==
    SetHandler(hs, name,
               Handler("optionStringHandler", optionRequiredArg, FALSE,
                       option))

addOptionalStringHandler(hs, name, option) ==
    SetHandler(hs, name,
               Handler("optionStringHandler", optionOptionalArg, FALSE,
                       option))

addStringArrayHandler(hs, name, option) ==
    SetHandler(hs, name,
               Handler("optionStringArrayHandler", optionRequiredArg, FALSE,
                       option))

\* the second type switch of parseOption: the handler(s) added for ptr
addHandler(hs, name, ptr, negatable, counting, optional) ==
    CASE ptr.ty = "*bool" ->
           IF negatable THEN addNegatableHandler(hs, name, ptr.v)
           ELSE addSimpleHandler(hs, name, ptr.v)
      [] ptr.ty = "*int" ->
           IF counting THEN addCountingHandler(hs, name, ptr.v)
           ELSE IF optional THEN addOptionalIntHandler(hs, name, ptr.v)
           ELSE addIntHandler(hs, name, ptr.v)
      [] ptr.ty = "*[]int" -> addIntArrayHandler(hs, name, ptr.v)
      [] ptr.ty = "*float64" ->
           IF optional THEN addOptionalFloatHandler(hs, name, ptr.v)
           ELSE addFloatHandler(hs, name, ptr.v)
      [] ptr.ty = "*[]float64" -> addFloatArrayHandler(hs, name, ptr.v)
      [] ptr.ty = "*string" ->
           IF optional THEN addOptionalStringHandler(hs, name, ptr.v)
           ELSE addStringHandler(hs, name, ptr.v)
      [] ptr.ty = "*[]string" -> addStringArrayHandler(hs, name, ptr.v)
      [] OTHER -> hs

\* the error of the second type switch: its default case
addHandlerError(ptr) ==
    IF ptr.ty \in {"*bool", "*int", "*[]int", "*float64", "*[]float64",
                   "*string", "*[]string"}
    THEN "nil" ELSE "type not recognized"

\* the attributes parseOption reads from a match of the pattern: the
\* modifier of match[3], then optional and dType of match[2]
descAttributes(match) ==
    [negatable |-> Len(match[3]) > 0 /\ match[3][1] = "!",
     counting |-> Len(match[3]) > 0 /\ match[3][1] = "+",
     dArray |-> Len(match[3]) > 0 /\ match[3][1] = "@",
     optional |-> Len(match[2]) > 0 /\ match[2][1] = ":",
     dType |-> IF Len(match[2]) > 0 THEN match[2][2] ELSE "?"]

\* parseOption with the bug of probing the pointer before the descriptor
\* is matched
parseOptionProbeFirst(hs, desc, ptr) ==
    LET match == FindStringSubmatch(desc)
        at == descAttributes(match)
        name == match[1]
        pType == probe(ptr)[1]
        pArray == probe(ptr)[2]
        fail(e) == [err |-> e, handlers |-> hs]
    IN  IF pType = "?" THEN fail("type not recognized")
        ELSE IF match = <<>> THEN fail("descriptor not understood")
        ELSE IF \/ at.dType # "?" /\ at.dType # pType
                \/ at.counting /\ ~(pType = "i" /\ ~pArray)
                \/ at.negatable /\ pType # "b"
                \/ at.dArray # pArray
                \/ at.optional /\ pArray
                \/ at.optional /\ ~(pType \in {"i", "s", "f"})
             THEN fail("descriptor type mismatch")
        ELSE IF checkNameConflict(hs, name, at.negatable) # "nil"
             THEN fail(checkNameConflict(hs, name, at.negatable))
        ELSE [err |-> addHandlerError(ptr),
              handlers |-> addHandler(hs, name, ptr, at.negatable,
                                      at.counting, at.optional)]

\* parseOption(oc, desc, ptr): [err, handlers], the error returned and
\* oc.handlers afterwards
parseOption(hs, desc, ptr) ==
    LET match == FindStringSubmatch(desc)
        negatable == descAttributes(match).negatable
        counting == descAttributes(match).counting
        dArray == descAttributes(match).dArray
        optional == descAttributes(match).optional
        dType == descAttributes(match).dType
        name == match[1]
        pType == probe(ptr)[1]
        pArray == probe(ptr)[2]
        fail(e) == [err |-> e, handlers |-> hs]
    IN  IF match = <<>> THEN fail("descriptor not understood")
        ELSE IF pType = "?" THEN fail("type not recognized")
        ELSE IF dType # "?" /\ dType # pType
             THEN fail("descriptor type mismatch")
        ELSE IF counting /\ ~(pType = "i" /\ ~pArray)
             THEN fail("descriptor type mismatch")
        ELSE IF negatable /\ pType # "b"
             THEN fail("descriptor type mismatch")
        ELSE IF dArray # pArray THEN fail("descriptor type mismatch")
        ELSE IF optional /\ pArray THEN fail("descriptor type mismatch")
        ELSE IF optional /\ ~(pType \in {"i", "s", "f"})
             THEN fail("descriptor type mismatch")
        ELSE IF checkNameConflict(hs, name, negatable) # "nil"
             THEN fail(checkNameConflict(hs, name, negatable))
        ELSE [err |-> addHandlerError(ptr),
              handlers |-> addHandler(hs, name, ptr, negatable, counting,
                                      optional)]

(***************************************************************************)
(* scanning: processArgs                                                   *)
(***************************************************************************)

\* the option prefix "--"
DD == <<"-", "-">>

\* looksLikeOption with the bug of taking one hyphen for the prefix
looksLikeOptionOneHyphen(tok) == HasPrefix(tok, <<"-">>)

\* the loop's first test: the token looks like an option
looksLikeOption(tok) == HasPrefix(tok, DD)

\* inlineIndex with the bug of splitting at the last '=' (LastIndex)
inlineIndexLast(name) ==
    IF \E i \in 1..Len(name) : name[i] = "="
    THEN (CHOOSE i \in 1..Len(name) :
              name[i] = "=" /\ \A j \in (i + 1)..Len(name) : name[j] # "=") - 1
    ELSE -1

\* i := strings.IndexRune(name, '=')
inlineIndex(name) == IndexRune(name, "=")

\* zeroOrOne after the split at '=': the inline value, if there is one
inlineValue(name) ==
    IF inlineIndex(name) > -1
    THEN <<SliceFrom(name, inlineIndex(name) + 1)>>
    ELSE <<>>

\* name after the split at '='
optionName(name) ==
    IF inlineIndex(name) > -1 THEN SliceTo(name, inlineIndex(name)) ELSE name

\* wantsNoValue with the bug of treating a flag like a value option
wantsNoValueNever(h) == FALSE

\* h.getType() == optionNoArg: the handler takes no value
wantsNoValue(h) == getType(h) = optionNoArg

\* missingArgument with the bug of never reporting the missing value
missingArgumentNever(h) == FALSE

\* at the last token, h.getType() == optionRequiredArg: the value is missing
missingArgument(h) == getType(h) = optionRequiredArg

\* nextLooksFlagLike with the bug of not looking at the next token: an
\* optional-argument option takes whatever follows it
nextLooksFlagLikeNever(h, rst) == FALSE

\* nextLooksFlagLike with the bug of holding for every next token: an
\* optional-argument option takes an inline value only
nextLooksFlagLikeAlways(h, rst) == getType(h) = optionOptionalArg

\* nextLooksFlagLike with the bug of not testing the arity: a required
\* option leaves a flag-like next token alone too
nextLooksFlagLikeAnyArity(h, rst) == HasPrefix(rst[1], DD)

\* nextLooksFlagLike with the bug of taking one hyphen for flag-like
nextLooksFlagLikeOneHyphen(h, rst) ==
    getType(h) = optionOptionalArg /\ HasPrefix(rst[1], <<"-">>)

\* h.getType() == optionOptionalArg && strings.HasPrefix(rest[0], "--"):
\* the next token looks like a flag and is left alone
nextLooksFlagLike(h, rst) ==
    getType(h) = optionOptionalArg /\ HasPrefix(rst[1], DD)

\* takeValue with the bug of dropping the next token without handing it to
\* the handler (rest = rest[1:] without zeroOrOne = rest[0:1])
takeValueDropsNext(h, zeroOrOne, rst) ==
    IF wantsNoValue(h)
    THEN [err |-> "nil", zeroOrOne |-> zeroOrOne, rest |-> rst]
    ELSE IF Len(zeroOrOne) > 0
    THEN [err |-> "nil", zeroOrOne |-> zeroOrOne, rest |-> rst]
    ELSE IF Len(rst) < 1
    THEN IF missingArgument(h)
         THEN [err |-> "missing required argument",
               zeroOrOne |-> zeroOrOne, rest |-> rst]
         ELSE [err |-> "nil", zeroOrOne |-> zeroOrOne, rest |-> rst]
    ELSE IF nextLooksFlagLike(h, rst)
    THEN [err |-> "nil", zeroOrOne |-> zeroOrOne, rest |-> rst]
    ELSE [err |-> "nil", zeroOrOne |-> zeroOrOne, rest |-> Tail(rst)]

\* the if/else chain that settles the value handed to the handler h, from
\* the inline value zeroOrOne and the tokens rst after the option token:
\* [err, zeroOrOne, rest]
takeValue(h, zeroOrOne, rst) ==
    IF wantsNoValue(h)
    THEN [err |-> "nil", zeroOrOne |-> zeroOrOne, rest |-> rst]
    ELSE IF Len(zeroOrOne) > 0
    THEN [err |-> "nil", zeroOrOne |-> zeroOrOne, rest |-> rst]
    ELSE IF Len(rst) < 1
    THEN IF missingArgument(h)
         THEN [err |-> "missing required argument",
               zeroOrOne |-> zeroOrOne, rest |-> rst]
         ELSE [err |-> "nil", zeroOrOne |-> zeroOrOne, rest |-> rst]
    ELSE IF nextLooksFlagLike(h, rst)
    THEN [err |-> "nil", zeroOrOne |-> zeroOrOne, rest |-> rst]
    ELSE [err |-> "nil", zeroOrOne |-> SliceTo(rst, 1), rest |-> Tail(rst)]

\* endOfOptions with the bug of not knowing the marker "--"
endOfOptionsNever(name) == FALSE

\* if len(name) == 0 { break }: the token was exactly "--"
endOfOptions(name) == Len(name) = 0

\* lookup with the bug (Getopt::Long's auto_abbrev) of taking a name that
\* is the prefix of exactly one registered name for that name
lookupAbbrev(hs, name) ==
    LET longer == {n \in DOMAIN hs : HasPrefix(n, name)}
    IN  IF name \in DOMAIN hs THEN <<TRUE, hs[name]>>
        ELSE IF Cardinality(longer) = 1
        THEN <<TRUE, hs[CHOOSE n \in longer : TRUE]>>
        ELSE <<FALSE, <<>>>>

\* lookup with the bug (Getopt::Long's ignore_case) of taking a name for
\* the registered name it equals in lower case
lookupIgnoreCase(hs, name) ==
    LET lower == [i \in 1..Len(name) |->
                     CASE name[i] = "F" -> "f"
                       [] name[i] = "V" -> "v"
                       [] OTHER -> name[i]]
    IN  IF lower \in DOMAIN hs THEN <<TRUE, hs[lower]>> ELSE <<FALSE, <<>>>>

\* h, ok := oc.handlers[name]: <<ok, h>>
lookup(hs, name) ==
    IF name \in DOMAIN hs THEN <<TRUE, hs[name]>> ELSE <<FALSE, <<>>>>

\* oc.committers = append(oc.committers, c)
appendCommitter(cs, c) == Append(cs, c)

\* processArgsIter with the bug of leaving out rest = rest[1:], so that
\* the option token stays in rest
processArgsIterNoAdvance(hs, cs, rst) ==
    LET tok == rst[1]
        name0 == SliceFrom(tok, 2)
        rest1 == rst
        name == optionName(name0)
        found == lookup(hs, name)
        h == found[2]
        tv == takeValue(h, inlineValue(name0), rest1)
        hr == handle(h, tv.zeroOrOne)
        out(ctl, r, c, e) ==
            [ctl |-> ctl, rest |-> r, committers |-> c, err |-> e]
    IN  IF ~looksLikeOption(tok) THEN out("break", rst, cs, "nil")
        ELSE IF endOfOptions(name0) THEN out("break", rest1, cs, "nil")
        ELSE IF ~found[1] THEN out("return", rest1, cs, "not recognized")
        ELSE IF tv.err # "nil" THEN out("return", tv.rest, cs, tv.err)
        ELSE IF hr.err # "nil" THEN out("return", tv.rest, cs, hr.err)
        ELSE out("continue", tv.rest, appendCommitter(cs, hr.c), "nil")

\* One pass of the loop of processArgs, entered with len(rest) > 0:
\* [ctl, rest, committers, err].  ctl is "break" (the loop ends), "return"
\* (an error return) or "continue".
processArgsIter(hs, cs, rst) ==
    LET tok == rst[1]
        name0 == SliceFrom(tok, 2)
        rest1 == Tail(rst)
        name == optionName(name0)
        found == lookup(hs, name)
        h == found[2]
        tv == takeValue(h, inlineValue(name0), rest1)
        hr == handle(h, tv.zeroOrOne)
        out(ctl, r, c, e) ==
            [ctl |-> ctl, rest |-> r, committers |-> c, err |-> e]
    IN  IF ~looksLikeOption(tok) THEN out("break", rst, cs, "nil")
        ELSE IF endOfOptions(name0) THEN out("break", rest1, cs, "nil")
        ELSE IF ~found[1] THEN out("return", rest1, cs, "not recognized")
        ELSE IF tv.err # "nil" THEN out("return", tv.rest, cs, tv.err)
        ELSE IF hr.err # "nil" THEN out("return", tv.rest, cs, hr.err)
        ELSE out("continue", tv.rest, appendCommitter(cs, hr.c), "nil")

\* errorReturn with the bug of returning rest, the tokens not yet scanned,
\* in place of args
errorReturnRest(it, as, m) == [ret |-> it.rest, err |-> it.err, mem |-> m]

\* errorReturn with the bug of running the committers queued so far
\* before the error is returned
errorReturnCommitted(it, as, m) ==
    [ret |-> as, err |-> it.err, mem |-> commit(it.committers, m)]

\* return args, err: the results [ret, err, mem] of a call whose loop pass
\* it failed, called with args = as and the caller's memory m
errorReturn(it, as, m) == [ret |-> as, err |-> it.err, mem |-> m]

\* oc.commit(); return rest, nil: the results [ret, err, mem] of a call
\* whose loop ended with rest = rst and oc.committers = cs
commitReturn(rst, cs, m) == [ret |-> rst, err |-> "nil", mem |-> commit(cs, m)]

\* processArgs(oc, args) run to its return from the loop state (cs, rst):
\* [ret, err, mem], the two results and the caller's memory afterwards
RECURSIVE processArgsFrom(_, _, _, _, _)
processArgsFrom(hs, cs, rst, as, m) ==
    IF Len(rst) = 0 THEN commitReturn(rst, cs, m)
    ELSE LET it == processArgsIter(hs, cs, rst)
         IN  CASE it.ctl = "break" -> commitReturn(it.rest, cs, m)
               [] it.ctl = "return" -> errorReturn(it, as, m)
               [] it.ctl = "continue" ->
                    processArgsFrom(hs, it.committers, it.rest, as, m)

processArgs(hs, as, m) == processArgsFrom(hs, <<>>, as, as, m)

(***************************************************************************)
(* the calls of GetOptions the model makes                                 *)
(***************************************************************************)

\* the tokens args is made of
Tokens ==
    { DD \o <<"f">>,                          \* --f
      DD \o <<"n", "o", "f">>,                \* --nof
      DD \o <<"n", "o">>,                     \* --no
      DD \o <<"F">>,                          \* --F
      DD \o <<"f", "=", "0">>,                \* --f=0
      DD \o <<"v">>,                          \* --v
      DD \o <<"v", "=", "1">>,                \* --v=1
      DD \o <<"v", "=">>,                     \* --v=
      DD \o <<"v", "=", "1", "=", "1">>,      \* --v=1=1
      DD,                                     \* --
      <<"-", "1">>,                           \* -1
      <<"x">> }                               \* x

ArgLists == UNION {[1..n -> Tokens] : n \in 0..MaxArgs}

\* an element of a: a Go string, or a pointer to the caller's variable v
String(s) == [ty |-> "string", v |-> s]
Pointer(ty, v) == [ty |-> ty, v |-> v]

\* the caller's variables before the call: none holds what an option of
\* the model stores, so that every store shows
Mem0 ==
    [boolValue |-> FALSE, boolTrue |-> TRUE, intValue |-> 7,
     floatValue |-> <<7, 0>>, stringValue |-> <<"d">>,
     intArray |-> <<7>>, floatArray |-> <<<<7, 0>>>>,
     stringArray |-> <<<<"d">>>>]

\* the option lists a: the flag f in its three forms, the value option v
\* in each of its nine, and a list whose second pair fails to register
OptionLists ==
    { <<String(<<"f">>), Pointer("*bool", "boolValue"),
        String(<<"v", "=", "i">>), Pointer("*int", "intValue")>>,
      <<String(<<"f", "!">>), Pointer("*bool", "boolTrue"),
        String(<<"v", ":", "i">>), Pointer("*int", "intValue")>>,
      <<String(<<"f", "+">>), Pointer("*int", "intValue"),
        String(<<"v", "=", "s">>), Pointer("*string", "stringValue")>>,
      <<String(<<"f", "!">>), Pointer("*bool", "boolValue"),
        String(<<"v", ":", "s">>), Pointer("*string", "stringValue")>>,
      <<String(<<"f">>), Pointer("*bool", "boolValue"),
        String(<<"v", "=", "f">>), Pointer("*float64", "floatValue")>>,
      <<String(<<"f", "!">>), Pointer("*bool", "boolTrue"),
        String(<<"v", ":", "f">>), Pointer("*float64", "floatValue")>>,
      <<String(<<"f">>), Pointer("*bool", "boolValue"),
        String(<<"v", "=", "i", "@">>), Pointer("*[]int", "intArray")>>,
      <<String(<<"f", "+">>), Pointer("*int", "intValue"),
        String(<<"v", "=", "s", "@">>), Pointer("*[]string", "stringArray")>>,
      <<String(<<"f">>), Pointer("*bool", "boolValue"),
        String(<<"v", "=", "f", "@">>), Pointer("*[]float64", "floatArray")>>,
      <<String(<<"f">>), Pointer("*bool", "boolValue"),
        String(<<"v", "=", "i">>), Pointer("*string", "stringValue")>>,
      <<String(<<"f">>), Pointer("*bool", "boolValue"),
        String(<<"v">>)>> }

(***************************************************************************)
(* GetOptions as a state machine                                           *)
(***************************************************************************)

\* os.Args[0]
ProgramName == <<"p">>

\* GetOptions is entered: oc := newOptionCollection()
Init ==
    /\ pc = "parseOptions"
    /\ args \in ArgLists
    /\ a \in OptionLists
    /\ handlers = <<>>
    /\ committers = <<>>
    /\ rest = <<>>
    /\ mem = Mem0
    /\ ret = <<>>
    /\ err = "nil"
    /\ osArgs = <<ProgramName>>
    /\ calls = 1
    /\ re = "nil"
    /\ compiled = 0

\* GetOptions returns with the results r = [ret, err, mem]
Return(r) ==
    /\ pc' = "done"
    /\ ret' = r.ret
    /\ err' = r.err
    /\ mem' = r.mem

\* parseOptionsError with the bug of returning no tokens with the error
parseOptionsErrorNil(e) == [ret |-> <<>>, err |-> e, mem |-> mem]

\* return args, err of GetOptions: parseOptions failed with e
parseOptionsError(e) == [ret |-> args, err |-> e, mem |-> mem]

\* one pass of the loop of parseOptions: the pair a[0], a[1]
ParseOptionsPair ==
    /\ pc = "parseOptions"
    /\ Len(a) >= 2
    /\ LET r == parseOption(handlers, a[1].v, a[2])
       IN  IF a[1].ty # "string"
           THEN /\ Return(parseOptionsError("descriptor must be string"))
                /\ UNCHANGED <<a, handlers>>
           ELSE IF r.err # "nil"
           THEN /\ Return(parseOptionsError(r.err))
                /\ handlers' = r.handlers
                /\ UNCHANGED a
           ELSE /\ handlers' = r.handlers
                /\ a' = SliceFrom(a, 2)
                /\ UNCHANGED <<pc, ret, err, mem>>
    /\ IF a[1].ty # "string"
       THEN UNCHANGED <<re, compiled>>
       ELSE /\ re' = descRe(re).re
            /\ compiled' = compiled + descRe(re).compiles
    /\ UNCHANGED <<args, committers, rest, osArgs, calls>>

\* the loop of parseOptions has ended: the odd-length test, then GetOptions
\* goes on to processArgs (rest := args)
ParseOptionsEnd ==
    /\ pc = "parseOptions"
    /\ Len(a) < 2
    /\ IF Len(a) = 1
       THEN /\ Return(parseOptionsError("odd number of arguments"))
            /\ UNCHANGED rest
       ELSE /\ pc' = "processArgs"
            /\ rest' = args
            /\ UNCHANGED <<ret, err, mem>>
    /\ UNCHANGED <<args, a, handlers, committers, osArgs, calls, re, compiled>>

\* one pass of the loop of processArgs that does not leave the loop by
\* break: an option token is handled (continue) or fails (return args, err)
ProcessArgsOption ==
    /\ pc = "processArgs"
    /\ Len(rest) > 0
    /\ LET it == processArgsIter(handlers, committers, rest)
       IN  /\ it.ctl # "break"
           /\ IF it.ctl = "return"
              THEN /\ Return(errorReturn(it, args, mem))
                   /\ UNCHANGED <<rest, committers>>
              ELSE /\ rest' = it.rest
                   /\ committers' = it.committers
                   /\ UNCHANGED <<pc, ret, err, mem>>
    /\ UNCHANGED <<args, a, handlers, osArgs, calls, re, compiled>>

\* the loop of processArgs ends (no token left, a token that is no option,
\* or "--"): oc.commit(), return rest, nil
ProcessArgsEnd ==
    /\ pc = "processArgs"
    /\ LET it == IF Len(rest) > 0
                 THEN processArgsIter(handlers, committers, rest)
                 ELSE [ctl |-> "break", rest |-> rest]
       IN  /\ it.ctl = "break"
           /\ Return(commitReturn(it.rest, committers, mem))
           /\ rest' = it.rest
    /\ UNCHANGED <<args, a, handlers, committers, osArgs, calls, re, compiled>>

Next ==
    \/ ParseOptionsPair
    \/ ParseOptionsEnd
    \/ ProcessArgsOption
    \/ ProcessArgsEnd

Spec == Init /\ [][Next]_vars

(***************************************************************************)
(* the calls of GetOptions that exercise registration                      *)
(***************************************************************************)

MaxRegArgs == 2

\* the two-rune type groups [=:][bifs] and the modifier runes [!+@] of the
\* descriptor pattern
TypeGroups == {<<m, t>> : m \in {"=", ":"}, t \in {"b", "i", "f", "s"}}
Modifiers == {<<"!">>, <<"+">>, <<"@">>}

\* every descriptor text made of the name n, at most one type group and at
\* most one modifier rune
Descriptors(n) ==
    {n \o tg \o md : tg \in TypeGroups \cup {<<>>}, md \in Modifiers \cup {<<>>}}

\* descriptor texts that are not of that form
OtherDescriptors ==
    { <<"v", ":">>,                           \* "v:"
      <<"v", "=">>,                           \* "v="
      <<"v", ":", "@">>,                      \* "v:@"
      <<"v", "!", "+">>,                      \* "v!+"
      <<"v", "=", "x">>,                      \* "v=x"
      <<"v", ":", "+", "i">>,                 \* "v:+i"
      <<"=", "i">>,                           \* "=i"
      <<>>,                                   \* ""
      <<"v", "|", "w", "=", "s">>,            \* "v|w=s"
      <<"v", "=", "s", "%">>,                 \* "v=s%"
      <<"v", "=", "i", "{", "2", "}">>,       \* "v=i{2}"
      <<"v", "=", "i", "{", "1", ",", "3", "}">>,  \* "v=i{1,3}"
      <<"v", ":", "1", "0">> }                \* "v:10"

\* pointers of the seven types the type switch of parseOption has a case
\* for, and of two it has none for
SupportedPointers ==
    { Pointer("*bool", "boolValue"), Pointer("*bool", "boolTrue"),
      Pointer("*int", "intValue"), Pointer("*float64", "floatValue"),
      Pointer("*string", "stringValue"), Pointer("*[]int", "intArray"),
      Pointer("*[]float64", "floatArray"),
      Pointer("*[]string", "stringArray") }

UnsupportedPointers ==
    { Pointer("*[]bool", "boolArray"), Pointer("*uint", "uintValue") }

\* the option names of the lists of two pairs: a name and its negated name
RegNames == {<<"f">>, <<"n", "o", "f">>}

\* the pairs parseOption accepts on an empty optionCollection
ValidPairs ==
    {p \in (UNION {Descriptors(n) : n \in RegNames}) \X SupportedPointers :
        parseOption(<<>>, p[1], p[2]).err = "nil"}

\* every descriptor text of the name v with every pointer
SinglePairs ==
    {<<String(d), p>> :
        d \in Descriptors(<<"v">>) \cup OtherDescriptors,
        p \in SupportedPointers \cup UnsupportedPointers}

\* the option lists a: a single pair, alone and after the flag "v"; every
\* two pairs that are each accepted when alone; a list whose second
\* descriptor is no string; lists of odd length
RegOptionLists ==
    SinglePairs
    \cup
    {<<String(<<"v">>), Pointer("*bool", "boolValue")>> \o sp :
        sp \in SinglePairs}
    \cup
    {<<String(p[1]), p[2], String(q[1]), q[2]>> :
        p \in ValidPairs, q \in ValidPairs}
    \cup
    { <<String(<<"f">>), Pointer("*bool", "boolValue"),
        [ty |-> "int", v |-> <<"5">>], Pointer("*int", "intValue")>>,
      <<String(<<"f">>), Pointer("*bool", "boolValue"),
        String(<<"v", "=", "i">>)>>,
      <<String(<<"f">>)>> }

RegTokens ==
    { DD \o <<"f">>, <<"-", "f">>, DD \o <<"v", "=", "1">> }

RegArgLists == UNION {[1..n -> RegTokens] : n \in 0..MaxRegArgs}

InitReg ==
    /\ pc = "parseOptions"
    /\ args \in RegArgLists
    /\ a \in RegOptionLists
    /\ handlers = <<>>
    /\ committers = <<>>
    /\ rest = <<>>
    /\ mem = Mem0
    /\ ret = <<>>
    /\ err = "nil"
    /\ osArgs = <<ProgramName>>
    /\ calls = 1
    /\ re = "nil"
    /\ compiled = 0

SpecReg == InitReg /\ [][Next]_vars

(***************************************************************************)
(* GetOSOptions: GetOptions on os.Args[1:]                                 *)
(***************************************************************************)

MaxOSArgs == 4

OSTokens ==
    { DD \o <<"f">>, DD \o <<"v">>, <<"1">>, <<"x">> }

\* os.Args: the program name and up to MaxOSArgs arguments
OSArgLists ==
    {<<ProgramName>> \o l : l \in UNION {[1..n -> OSTokens] : n \in 0..MaxOSArgs}}

\* the option lists of the calls of GetOSOptions: a flag and an integer
\* option, required or optional, and a list that fails to register
OSOptionLists ==
    { <<String(<<"f">>), Pointer("*bool", "boolValue"),
        String(<<"v", "=", "i">>), Pointer("*int", "intValue")>>,
      <<String(<<"f", "!">>), Pointer("*bool", "boolTrue"),
        String(<<"v", ":", "i">>), Pointer("*int", "intValue")>>,
      <<String(<<"f">>), Pointer("*bool", "boolValue"),
        String(<<"v", "=", "i">>), Pointer("*string", "stringValue")>> }

\* GetOSOptions is entered and calls GetOptions(os.Args[1:], a...)
InitOS ==
    /\ pc = "parseOptions"
    /\ osArgs \in OSArgLists
    /\ args = SliceFrom(osArgs, 1)
    /\ a \in OSOptionLists
    /\ handlers = <<>>
    /\ committers = <<>>
    /\ rest = <<>>
    /\ mem = Mem0
    /\ ret = <<>>
    /\ err = "nil"
    /\ calls = 1
    /\ re = "nil"
    /\ compiled = 0

\* replaceArgs with the bug of keeping no first element
replaceArgsRetOnly(osa, r) == r

\* replace := []string{os.Args[1]}; append(replace, ret...)
replaceArgs(osa, r) == <<osa[2]>> \o r

\* GetOptions has returned to GetOSOptions: return err, or os.Args is
\* replaced and nil returned.  os.Args[1] is indexed unguarded: with no
\* argument after the program name Go panics.
GetOSOptionsReturn ==
    /\ pc = "done"
    /\ pc' = "returned"
    /\ IF err # "nil" THEN UNCHANGED <<osArgs, err>>
       ELSE IF Len(osArgs) < 2
       THEN err' = "panic: index out of range" /\ UNCHANGED osArgs
       ELSE osArgs' = replaceArgs(osArgs, ret) /\ UNCHANGED err
    /\ UNCHANGED <<args, a, handlers, committers, rest, mem, ret, calls, re,
                   compiled>>

NextOS ==
    \/ Next
    \/ GetOSOptionsReturn

SpecOS == InitOS /\ [][NextOS]_vars

(***************************************************************************)
(* GetOptions run to its return                                            *)
(***************************************************************************)

\* GetOptions is one sequential call: parseOptions and processArgs run
\* their loops without waiting for anything, so a step that can be taken
\* is taken.
SpecFair == InitOS /\ [][Next]_vars /\ WF_vars(Next)

(***************************************************************************)
(* successive calls of GetOptions on the same variables                    *)
(***************************************************************************)

MaxCalls == 2
MaxCallArgs == 2

CallTokens ==
    { DD \o <<"f">>,                          \* --f
      DD \o <<"v", "=", "1">>,                \* --v=1
      DD \o <<"v", "=", "x">> }               \* --v=x

CallArgLists == UNION {[1..n -> CallTokens] : n \in 0..MaxCallArgs}

\* every call registers the names f and v
CallOptionLists ==
    { <<String(<<"f">>), Pointer("*bool", "boolValue"),
        String(<<"v", "=", "i">>), Pointer("*int", "intValue")>>,
      <<String(<<"v", "=", "s">>), Pointer("*string", "stringValue"),
        String(<<"f">>), Pointer("*bool", "boolValue")>> }

\* newOptionCollection with the bug of one collection kept between calls
newOptionCollectionStale == [handlers |-> handlers, committers |-> committers]

\* newOptionCollection(): the two fields of a new optionCollection
newOptionCollection == [handlers |-> <<>>, committers |-> <<>>]

\* the first call of GetOptions
InitCalls ==
    /\ pc = "parseOptions"
    /\ args \in CallArgLists
    /\ a \in CallOptionLists
    /\ handlers = <<>>
    /\ committers = <<>>
    /\ rest = <<>>
    /\ mem = Mem0
    /\ ret = <<>>
    /\ err = "nil"
    /\ osArgs = <<ProgramName>>
    /\ calls = 1
    /\ re = "nil"
    /\ compiled = 0

\* the caller, a call of GetOptions having returned, calls it again on the
\* same variables: oc := newOptionCollection()
GetOptionsAgain ==
    /\ pc = "done"
    /\ calls < MaxCalls
    /\ pc' = "parseOptions"
    /\ calls' = calls + 1
    /\ args' \in CallArgLists
    /\ a' \in CallOptionLists
    /\ handlers' = newOptionCollection.handlers
    /\ committers' = newOptionCollection.committers
    /\ rest' = <<>>
    /\ ret' = <<>>
    /\ err' = "nil"
    /\ UNCHANGED <<mem, osArgs, re, compiled>>

NextCalls ==
    \/ Next
    \/ GetOptionsAgain

SpecCalls == InitCalls /\ [][NextCalls]_vars

(***************************************************************************)
(* properties                                                              *)
(***************************************************************************)

\* the errors processArgs raises while it scans
ScanErrors == {"not recognized", "missing required argument", "invalid syntax"}

Succeeded == pc = "done" /\ err = "nil"

\* s has no '='
NoEq(s) == \A i \in 1..Len(s) : s[i] # "="

\* the texts a token can have between "--" and a place further on, and the
\* texts it can end in
NamesIn(tok) == {SubSeq(tok, 3, k) : k \in 2..Len(tok)}
ValuesIn(tok) == {SubSeq(tok, k, Len(tok)) : k \in 3..(Len(tok) + 1)}

\* tok is "--n" with n not empty and without '='
PlainOpt(tok, n) == tok = DD \o n /\ n # <<>> /\ NoEq(n)

\* tok is "--n=v" with n without '='
InlineOpt(tok, n, v) == tok = DD \o n \o <<"=">> \o v /\ NoEq(n)

\* the loop of processArgs is at its head with a token to look at
Scanning == pc = "processArgs" /\ rest # <<>>

\* C1: atomicity.  When GetOptions has returned an error raised while
\* scanning (option not recognized, required argument missing, value not
\* convertible), every destination holds its pre-call value and the slice
\* returned is the original token list.
C1_Atomicity ==
    (pc = "done" /\ err \in ScanErrors) => (mem = Mem0 /\ ret = args)

\* C1 witness: a scan that failed after earlier tokens had produced pending
\* updates which would have changed a destination.
C1_Witness ==
    /\ pc = "done"
    /\ err \in ScanErrors
    /\ committers # <<>>
    /\ commit(committers, Mem0) # Mem0
    /\ mem = Mem0
    /\ ret = args

\* the memory m is Mem0 after the pending updates cs, applied in the order
\* of cs: a destination that only array committers target holds its
\* pre-call contents followed by their values in the order of cs; any other
\* holds the value of the last committer that stores one (its pre-call
\* value if there is none), plus one for every counting committer after it
AppliedInOrder(m, cs) ==
    \A d \in DOMAIN m :
        LET idx == {i \in 1..Len(cs) : cs[i].option = d}
            rank(i) == Cardinality({j \in idx : j <= i})
            stores == {i \in idx : cs[i].c = "simple"}
            last == CHOOSE i \in stores : \A j \in stores : j <= i
            counts == {i \in idx : /\ cs[i].c = "counting"
                                   /\ \A j \in stores : j < i}
            base == IF stores = {} THEN Mem0[d] ELSE cs[last].value
        IN  IF idx = {} THEN TRUE
            ELSE IF \A i \in idx : cs[i].c = "array"
            THEN /\ Len(m[d]) = Len(Mem0[d]) + Cardinality(idx)
                 /\ SubSeq(m[d], 1, Len(Mem0[d])) = Mem0[d]
                 /\ \A i \in idx : m[d][Len(Mem0[d]) + rank(i)] = cs[i].value
            ELSE IF counts = {} THEN m[d] = base
            ELSE m[d] = base + Cardinality(counts)

\* the step from here handled the option named n: one committer, for the
\* destination of n, was put at the end of the pending updates
AppendedFor(n) ==
    /\ n \in DOMAIN handlers
    /\ Len(committers') = Len(committers) + 1
    /\ SubSeq(committers', 1, Len(committers)) = committers
    /\ committers'[Len(committers')].option = handlers[n].option

\* C2: on success the pending updates are applied in the order their option
\* tokens occurred.  Every option token that is handled puts its update at
\* the end of the pending list, and after a successful call a sequence
\* destination is its pre-call contents followed by the values of its
\* updates in that order, and a scalar holds the value of its last update.
C2_CommitOrder ==
    /\ [](Succeeded => AppliedInOrder(mem, committers))
    /\ [][(Scanning /\ pc' = "processArgs") =>
            \E n \in NamesIn(rest[1]) :
                /\ \/ PlainOpt(rest[1], n)
                   \/ \E v \in ValuesIn(rest[1]) : InlineOpt(rest[1], n, v)
                /\ AppendedFor(n)]_vars

\* C2 witness: a sequence option occurred twice with two different values
\* and the call succeeded.
C2_Witness ==
    /\ Succeeded
    /\ Len(committers) = 2
    /\ committers[1].c = "array"
    /\ committers[2].c = "array"
    /\ committers[1].option = committers[2].option
    /\ committers[1].value # committers[2].value
    /\ mem[committers[1].option] =
           Mem0[committers[1].option]
               \o <<committers[1].value, committers[2].value>>

\* tok begins with "--"
StartsWithDD(tok) == Len(tok) >= 2 /\ tok[1] = "-" /\ tok[2] = "-"

\* s is t from some place on
IsSuffix(s, t) ==
    Len(s) <= Len(t) /\ s = SubSeq(t, Len(t) - Len(s) + 1, Len(t))

\* the step from here is the error return of GetOptions with the error e:
\* the original token list comes back and no destination is written
FailsWith(e) ==
    /\ pc' = "done"
    /\ err' = e
    /\ ret' = args
    /\ mem' = Mem0

\* C3: scanning stops without error at the first token in scanning position
\* that does not begin with "--": the call returns that token and all after
\* it, unchanged and in order, and looks none of them up.  So after every
\* successful call the remainder is a suffix of the token list, and there
\* are no more pending updates than tokens before the remainder.
C3_StopAtNonOption ==
    /\ [](Succeeded => /\ IsSuffix(ret, args)
                       /\ Len(committers) <= Len(args) - Len(ret))
    /\ [][(Scanning /\ ~StartsWithDD(rest[1])) =>
            /\ pc' = "done"
            /\ err' = "nil"
            /\ ret' = rest
            /\ committers' = committers]_vars

\* C3 witness: after one option the scan met the single-hyphen token "-1"
\* and returned it together with the option-like token after it.
C3_Witness ==
    /\ Succeeded
    /\ Len(args) = 3
    /\ Len(committers) = 1
    /\ ret = SubSeq(args, 2, 3)
    /\ ret[1] = <<"-", "1">>
    /\ StartsWithDD(ret[2])
    /\ SubSeq(ret[2], 3, Len(ret[2])) \in DOMAIN handlers

\* C4: a token that is exactly "--", met in scanning position, ends option
\* processing: it is consumed, every token after it is the remainder and is
\* not looked up, and the options before it are committed.
C4_EndOfOptionsMarker ==
    [][(Scanning /\ rest[1] = <<"-", "-">>) =>
         /\ pc' = "done"
         /\ err' = "nil"
         /\ ret' = Tail(rest)
         /\ committers' = committers
         /\ AppliedInOrder(mem', committers)]_vars

\* C4 witness: an option, then "--", then a token naming a registered
\* option; the first was committed and the last came back as remainder.
C4_Witness ==
    /\ Succeeded
    /\ Len(args) = 3
    /\ args[2] = <<"-", "-">>
    /\ StartsWithDD(args[3])
    /\ SubSeq(args[3], 3, Len(args[3])) \in DOMAIN handlers
    /\ ret = <<args[3]>>
    /\ Len(committers) = 1
    /\ mem # Mem0

\* C5: lookup is by exact name.  A token "--N" or "--N=V" in scanning
\* position whose name N (the text before the first '=') is no key of the
\* registry makes GetOptions fail with 'not recognized' and return the
\* original token list.
C5_ExactLookup ==
    [][Scanning =>
         \A n \in NamesIn(rest[1]) :
             (/\ \/ PlainOpt(rest[1], n)
                 \/ \E v \in ValuesIn(rest[1]) : InlineOpt(rest[1], n, v)
              /\ n \notin DOMAIN handlers)
             => FailsWith("not recognized")]_vars

\* C5 witness: "--no" was refused although "nof" is registered, after an
\* earlier option had been handled.
C5_Witness ==
    /\ pc = "done"
    /\ err = "not recognized"
    /\ Len(args) = 2
    /\ args[2] = <<"-", "-", "n", "o">>
    /\ <<"n", "o", "f">> \in DOMAIN handlers
    /\ Len(committers) = 1
    /\ ret = args
    /\ mem = Mem0

\* the handler h takes a value and was not declared optional
RequiresValue(h) ==
    /\ h.h \in {"optionIntHandler", "optionFloatHandler",
                "optionStringHandler", "optionIntArrayHandler",
                "optionFloatArrayHandler", "optionStringArrayHandler"}
    /\ h.t # optionOptionalArg

\* C6: a required-argument option, scalar or sequence, that is the last
\* token and has no inline value makes GetOptions fail with 'missing
\* required argument', return the original token list and change nothing.
C6_MissingArgument ==
    [][(Scanning /\ Len(rest) = 1) =>
         \A n \in NamesIn(rest[1]) :
             (/\ PlainOpt(rest[1], n)
              /\ n \in DOMAIN handlers
              /\ RequiresValue(handlers[n]))
             => FailsWith("missing required argument")]_vars

\* C6 witness: a sequence option without a value was the last token, after
\* an option that had been handled.
C6_Witness ==
    /\ pc = "done"
    /\ err = "missing required argument"
    /\ Len(args) = 3
    /\ args[3] = <<"-", "-", "v">>
    /\ handlers[<<"v">>].h = "optionIntArrayHandler"
    /\ Len(committers) = 2
    /\ ret = args
    /\ mem = Mem0

\* the zero value of the kind the handler h converts to
ZeroValue(h) ==
    CASE h.h = "optionIntHandler" -> 0
      [] h.h = "optionFloatHandler" -> <<0, 0>>
      [] h.h = "optionStringHandler" -> <<>>

\* C7: an optional-argument option without inline value that is the last
\* token, or is followed by a token beginning with "--", gets the zero
\* value of its kind (0, 0.0, "") as its pending update and consumes its
\* own token only, so that the following token is the next one scanned.
C7_OptionalWithoutValue ==
    [][(Scanning /\ (Len(rest) = 1 \/ StartsWithDD(rest[2]))) =>
         \A n \in NamesIn(rest[1]) :
             (/\ PlainOpt(rest[1], n)
              /\ n \in DOMAIN handlers
              /\ handlers[n].t = optionOptionalArg)
             => /\ pc' = "processArgs"
                /\ rest' = Tail(rest)
                /\ committers' =
                       Append(committers,
                              [c |-> "simple",
                               value |-> ZeroValue(handlers[n]),
                               option |-> handlers[n].option])]_vars

\* C7 witness: "--v --f" with v an optional integer: v took no value, 0 was
\* stored, and "--f" was handled as an option of its own.
C7_Witness ==
    /\ Succeeded
    /\ args = << <<"-", "-", "v">>, <<"-", "-", "f">> >>
    /\ handlers[<<"v">>].h = "optionIntHandler"
    /\ handlers[<<"v">>].t = optionOptionalArg
    /\ Len(committers) = 2
    /\ committers[2].option = handlers[<<"f">>].option
    /\ mem.intValue = 0
    /\ Mem0.intValue # 0
    /\ ret = <<>>

\* the handler h is a scalar integer, float or text option with a required
\* or an optional argument
ScalarValueOption(h) ==
    /\ h.h \in {"optionIntHandler", "optionFloatHandler",
                "optionStringHandler"}
    /\ h.t \in {optionRequiredArg, optionOptionalArg}

\* C8: for a scalar integer, float or text option N, required or optional,
\* and a value X that does not begin with "--", the calls with "--N X"
\* and with "--N=X" before the same further tokens end alike: both fail
\* with the same error, each returning its own token list, or both succeed
\* with the same destination values and the same remainder.
C8_InlineEqualsSeparate ==
    (pc = "done" /\ err \in ScanErrors \cup {"nil"} /\ Len(args) >= 2) =>
        \A n \in NamesIn(args[1]) :
            (/\ PlainOpt(args[1], n)
             /\ n \in DOMAIN handlers
             /\ ScalarValueOption(handlers[n])
             /\ ~StartsWithDD(args[2]))
            => LET inline == <<args[1] \o <<"=">> \o args[2]>>
                                 \o SubSeq(args, 3, Len(args))
                   r == processArgs(handlers, inline, Mem0)
               IN  /\ r.err = err
                   /\ r.mem = mem
                   /\ err = "nil" => r.ret = ret
                   /\ err # "nil" => (r.ret = inline /\ ret = args)

\* C8 witness: "--v -1 t" with v a scalar integer succeeded, storing -1 and
\* returning the third token.
C8_Witness ==
    /\ Succeeded
    /\ Len(args) = 3
    /\ args[1] = <<"-", "-", "v">>
    /\ args[2] = <<"-", "1">>
    /\ handlers[<<"v">>].h = "optionIntHandler"
    /\ mem.intValue = -1
    /\ ret = <<args[3]>>

\* the value a value handler h makes of the text v, or the error; a
\* no-argument handler converts nothing
Converted(h, v) ==
    CASE h.h \in {"optionIntHandler", "optionIntArrayHandler"} -> Atoi(v)
      [] h.h \in {"optionFloatHandler", "optionFloatArrayHandler"} ->
           ParseFloat(v)
      [] h.h \in {"optionStringHandler", "optionStringArrayHandler"} ->
           [err |-> "nil", v |-> v]
      [] OTHER -> [err |-> "nil", v |-> <<>>]

\* C9: in an option token with '=', the name is the text between "--" and
\* the first '=', and the inline value is all the text after that '=', be
\* it empty or with further '=' in it.  The option of that name gets that
\* value (converted to its kind) and the token after it is not consumed.
C9_InlineSplit ==
    [][Scanning =>
         \A n \in NamesIn(rest[1]) : \A v \in ValuesIn(rest[1]) :
             (InlineOpt(rest[1], n, v) /\ n \in DOMAIN handlers)
             => IF Converted(handlers[n], v).err # "nil"
                THEN FailsWith("invalid syntax")
                ELSE /\ pc' = "processArgs"
                     /\ rest' = Tail(rest)
                     /\ AppendedFor(n)
                     /\ handlers[n].t # optionNoArg =>
                            committers'[Len(committers')].value =
                                Converted(handlers[n], v).v]_vars

\* C9 witness: "--v=1=1 --v= x" with v a text option: "1=1" was the first
\* value, the empty text the second, and "x" was not consumed.
C9_Witness ==
    /\ Succeeded
    /\ args = << <<"-", "-", "v", "=", "1", "=", "1">>,
                 <<"-", "-", "v", "=">>, <<"x">> >>
    /\ handlers[<<"v">>].h = "optionStringHandler"
    /\ committers[1].value = <<"1", "=", "1">>
    /\ mem.stringValue = <<>>
    /\ ret = << <<"x">> >>

\* the pending update of the no-argument option named n
NoArgUpdate(n) ==
    IF handlers[n].h = "optionCountingHandler"
    THEN [c |-> "counting", value |-> 1, option |-> handlers[n].option]
    ELSE [c |-> "simple", value |-> handlers[n].value,
          option |-> handlers[n].option]

\* C10: a no-argument option (plain or negatable boolean, counting
\* integer) consumes its own token only: an inline value "--flag=V" does
\* not change what the option stores, and the next token is not consumed.
C10_NoArgConsumesOwnToken ==
    [][Scanning =>
         \A n \in NamesIn(rest[1]) :
             (/\ \/ PlainOpt(rest[1], n)
                 \/ \E v \in ValuesIn(rest[1]) : InlineOpt(rest[1], n, v)
              /\ n \in DOMAIN handlers
              /\ handlers[n].t = optionNoArg)
             => /\ pc' = "processArgs"
                /\ rest' = Tail(rest)
                /\ committers' = Append(committers, NoArgUpdate(n))]_vars

\* C10 witness: "--f=0 x" with f a plain flag set the flag true and left
\* "x" as the remainder.
C10_Witness ==
    /\ Succeeded
    /\ args = << <<"-", "-", "f", "=", "0">>, <<"x">> >>
    /\ handlers[<<"f">>].h = "optionSimpleHandler"
    /\ <<"n", "o", "f">> \notin DOMAIN handlers
    /\ handlers[<<"f">>].option = "boolValue"
    /\ mem.boolValue = TRUE
    /\ Mem0.boolValue = FALSE
    /\ ret = << <<"x">> >>

\* s is an option name: one or more runes of [-_a-zA-Z0-9]
IsName(s) == s # <<>> /\ \A i \in 1..Len(s) : s[i] \in NameRunes

\* the pass of the loop of parseOptions that is taken accepts the pair
\* a[0], a[1]
Accepts == pc = "parseOptions" /\ Len(a) >= 2 /\ a' = SliceFrom(a, 2)

\* the handler of a boolean flag: stores value through option, no argument
FlagHandler(value, option) ==
    [h |-> "optionSimpleHandler", t |-> optionNoArg, value |-> value,
     option |-> option]

\* registering "N!" on a *bool adds N (true) and "no"+N (false), both on
\* the pointer of the pair; registering "N" or "N+" adds N only
C11_Register ==
    Accepts =>
        \A n \in {a[1].v, SliceTo(a[1].v, Len(a[1].v) - 1)} :
            IsName(n) =>
                /\ a[1].v = n \o <<"!">> =>
                      /\ DOMAIN handlers' =
                             DOMAIN handlers \cup {n, <<"n", "o">> \o n}
                      /\ handlers'[n] = FlagHandler(TRUE, a[2].v)
                      /\ handlers'[<<"n", "o">> \o n] =
                             FlagHandler(FALSE, a[2].v)
                /\ a[1].v \in {n, n \o <<"+">>} =>
                      DOMAIN handlers' = DOMAIN handlers \cup {n}

\* scanning "--k": a registered flag queues the store of its value, a name
\* that is not registered ends the call with the error and nothing stored
C11_Scan ==
    Scanning =>
        \A k \in NamesIn(rest[1]) :
            PlainOpt(rest[1], k) =>
                IF k \in DOMAIN handlers
                THEN handlers[k].h = "optionSimpleHandler" =>
                         committers' =
                             Append(committers,
                                    [c |-> "simple",
                                     value |-> handlers[k].value,
                                     option |-> handlers[k].option])
                ELSE pc' = "done" /\ err' = "not recognized" /\ mem' = Mem0

\* a call of the single token "--k", k a registered flag and every pair
\* of a accepted, has stored the flag's value in its destination
C11_Stored ==
    \A k \in DOMAIN handlers :
        (/\ pc = "done"
         /\ a = <<>>
         /\ args = <<DD \o k>>
         /\ handlers[k].h = "optionSimpleHandler")
        => /\ err = "nil"
           /\ mem[handlers[k].option] = handlers[k].value

\* C11: registering the negatable descriptor "N!" on a boolean makes both
\* "--N" (stores true) and "--noN" (stores false) recognized, bound to the
\* same destination; registering the plain "N" or the counting "N+" does
\* not make "--noN" recognized: it fails as an unrecognized option and
\* the destination is left unchanged.
C11_Negatable == []C11_Stored /\ [][C11_Register /\ C11_Scan]_vars

\* C11 witness: with "f!" on the variable that held true, the call of
\* "--nof" has stored false in it.
C11_Witness ==
    /\ Succeeded
    /\ args = << <<"-", "-", "n", "o", "f">> >>
    /\ handlers[<<"f">>] = FlagHandler(TRUE, "boolTrue")
    /\ handlers[<<"n", "o", "f">>] = FlagHandler(FALSE, "boolTrue")
    /\ Mem0.boolTrue = TRUE
    /\ mem.boolTrue = FALSE

\* the descriptor text d read from its end: its modifier rune, the type
\* group before that, and the option name, which is all that is before
\* them (<<>>: none)
DescModifier(d) ==
    IF d # <<>> /\ <<d[Len(d)]>> \in Modifiers THEN <<d[Len(d)]>> ELSE <<>>
DescTypeGroup(d) ==
    LET k == Len(d) - Len(DescModifier(d))
    IN  IF k >= 2 /\ SubSeq(d, k - 1, k) \in TypeGroups
        THEN SubSeq(d, k - 1, k) ELSE <<>>
DescName(d) ==
    SliceTo(d, Len(d) - Len(DescModifier(d)) - Len(DescTypeGroup(d)))

\* parseOptions is about to take the pair a[0], a[1], and the pair is one
\* that is accepted when it is the only pair of a call
TakesValidPair ==
    /\ pc = "parseOptions"
    /\ Len(a) >= 2
    /\ a[1].ty = "string"
    /\ <<a[1].v, a[2]>> \in ValidPairs

\* the call ends with the name conflict error and the token list as given
NameConflict ==
    pc' = "done" /\ err' = "option already exists" /\ ret' = args

\* C12: two pairs of one call that are each valid alone and have the same
\* option name make the call fail with 'option already exists', whatever
\* the types of the two pointers and the modifiers; no entry of the
\* registry is ever overwritten by a later registration.
C12_SameNameConflict ==
    [][TakesValidPair =>
         /\ Accepts => DescName(a[1].v) \in DOMAIN handlers'
         /\ DescName(a[1].v) \in DOMAIN handlers => NameConflict
         /\ \A k \in DOMAIN handlers :
                k \in DOMAIN handlers' /\ handlers'[k] = handlers[k]]_vars

\* C12 witness: "f" was registered as a required integer option, and the
\* second pair, the negatable flag "f!" on a *bool, ended the call with
\* the name conflict.
C12_Witness ==
    /\ pc = "done"
    /\ err = "option already exists"
    /\ Len(a) = 2
    /\ a[1].v = <<"f", "!">>
    /\ a[2].ty = "*bool"
    /\ DOMAIN handlers = {<<"f">>}
    /\ handlers[<<"f">>].h = "optionIntHandler"
    /\ handlers[<<"f">>].t = optionRequiredArg

\* the descriptor text d is negatable: its modifier rune is '!'
IsNegatable(d) == d # <<>> /\ d[Len(d)] = "!"

\* C13: a negatable registration "N!" reserves both N and "no"+N.  It is
\* a name conflict if N or "no"+N is registered when "N!" is registered,
\* and once "N!" is registered both names are in the registry, so that a
\* later descriptor named N or "no"+N, negatable or not, is a name
\* conflict: whichever of the two is registered first.
C13_NegatableReservesBoth ==
    [][TakesValidPair =>
         LET n == DescName(a[1].v)
             non == <<"n", "o">> \o n
         IN  /\ (IsNegatable(a[1].v) /\ Accepts)
                   => {n, non} \subseteq DOMAIN handlers'
             /\ (IsNegatable(a[1].v) /\ non \in DOMAIN handlers)
                   => NameConflict
             /\ n \in DOMAIN handlers => NameConflict
             /\ NameConflict => handlers' = handlers]_vars

\* C13 witness: the plain flag "nof" was registered first; "f!" then ended
\* the call with the name conflict although no "f" was registered.
C13_Witness ==
    /\ pc = "done"
    /\ err = "option already exists"
    /\ Len(a) = 2
    /\ a[1].v = <<"f", "!">>
    /\ DOMAIN handlers = {<<"n", "o", "f">>}
    /\ handlers[<<"n", "o", "f">>].value = TRUE

\* d is a text of the descriptor grammar: a name, at most one type group,
\* at most one modifier rune
IsDescriptor(d) == IsName(DescName(d))

\* what the descriptor d declares
DeclaredLetter(d) ==
    IF DescTypeGroup(d) = <<>> THEN "none" ELSE DescTypeGroup(d)[2]
IsOptional(d) == DescTypeGroup(d) # <<>> /\ DescTypeGroup(d)[1] = ":"
IsCounting(d) == DescModifier(d) = <<"+">>
IsSequence(d) == DescModifier(d) = <<"@">>

\* the shape of the destination p points to: its element kind and whether
\* it is a sequence
ElementKind(p) ==
    CASE p.ty \in {"*bool"} -> "b"
      [] p.ty \in {"*int", "*[]int"} -> "i"
      [] p.ty \in {"*float64", "*[]float64"} -> "f"
      [] p.ty \in {"*string", "*[]string"} -> "s"
      [] OTHER -> "unsupported"
SequenceDest(p) == p.ty \in {"*[]int", "*[]float64", "*[]string"}
SupportedDest(p) == ElementKind(p) # "unsupported"

\* the six compatibility requirements on a descriptor and a destination
Compatible(d, p) ==
    /\ DeclaredLetter(d) # "none" => DeclaredLetter(d) = ElementKind(p)
    /\ IsCounting(d) => (ElementKind(p) = "i" /\ ~SequenceDest(p))
    /\ DescModifier(d) = <<"!">> => (ElementKind(p) = "b" /\ ~SequenceDest(p))
    /\ IsSequence(d) <=> SequenceDest(p)
    /\ IsOptional(d) => ~SequenceDest(p)
    /\ IsOptional(d) => ElementKind(p) \in {"i", "f", "s"}

\* parseOptions is about to take a pair a[0], a[1] whose a[0] is a text of
\* the descriptor grammar
TakesDescriptor ==
    pc = "parseOptions" /\ Len(a) >= 2 /\ a[1].ty = "string"
    /\ IsDescriptor(a[1].v)

C15_UnsupportedDestination ==
    /\ [](\A k \in DOMAIN handlers :
             \A p \in UnsupportedPointers : handlers[k].option # p.v)
    /\ [][(/\ pc = "parseOptions" /\ Len(a) >= 2 /\ a[1].ty = "string"
           /\ ~SupportedDest(a[2]))
          => /\ pc' = "done"
             /\ err' # "nil"
             /\ ret' = args
             /\ handlers' = handlers
             /\ IsDescriptor(a[1].v) => err' = "type not recognized"]_vars

\* C15 witness: the sequence descriptor "v@" on a pointer to a slice of
\* bool was rejected with 'type not recognized'.
C15_Witness ==
    /\ pc = "done"
    /\ err = "type not recognized"
    /\ a = <<String(<<"v", "@">>), Pointer("*[]bool", "boolArray")>>
    /\ handlers = <<>>

\* parseOptions is about to take a pair a[0], a[1] with a[0] a string
TakesPair == pc = "parseOptions" /\ Len(a) >= 2 /\ a[1].ty = "string"

\* C16: a descriptor that combines a type group ('=' or ':' and a type
\* letter) with the modifier '!' or '+', such as "flag=b!" or "count=i+",
\* is rejected as a malformed descriptor ('descriptor not understood')
\* for every destination, before any check of the descriptor against the
\* destination.
C16_TypedModifierMalformed ==
    [][(/\ TakesPair
        /\ \E n \in {SliceTo(a[1].v, k) : k \in 1..Len(a[1].v)},
              tg \in TypeGroups, md \in {<<"!">>, <<"+">>} :
               IsName(n) /\ a[1].v = n \o tg \o md)
       => /\ pc' = "done"
          /\ err' = "descriptor not understood"
          /\ handlers' = handlers]_vars

\* the number of the attributes negatable, counting, optional and
\* sequence that parseOption sets for the descriptor text d
AttributesSet(d) ==
    LET at == descAttributes(FindStringSubmatch(d))
    IN  Cardinality({x \in {"negatable", "counting", "optional", "dArray"} :
                        at[x]})

\* C17: every descriptor text the pattern accepts carries at most one of
\* negatable, counting, optional and sequence: parseOption sets no two of
\* these attributes for one descriptor.
C17_OneModifier ==
    (TakesPair /\ FindStringSubmatch(a[1].v) # <<>>)
        => AttributesSet(a[1].v) <= 1

\* C18: "value:" (the optional marker with no type letter) on an *int is
\* accepted and registers an optional-argument integer option; likewise
\* "value" on an *int registers a required integer option and "value@" on
\* a *[]int an integer sequence option, the type inferred from the
\* pointer.
C18_InferredType ==
    [][(TakesPair /\ handlers = <<>>) =>
         \A n \in {SliceTo(a[1].v, k) : k \in 1..Len(a[1].v)} :
             IsName(n) =>
                 /\ (a[1].v = n \o <<":">> /\ a[2].ty = "*int")
                       => /\ Accepts
                          /\ handlers' =
                                (n :> Handler("optionIntHandler",
                                              optionOptionalArg, FALSE,
                                              a[2].v))
                 /\ (a[1].v = n /\ a[2].ty = "*int")
                       => /\ Accepts
                          /\ handlers' =
                                (n :> Handler("optionIntHandler",
                                              optionRequiredArg, FALSE,
                                              a[2].v))
                 /\ (a[1].v = n \o <<"@">> /\ a[2].ty = "*[]int")
                       => /\ Accepts
                          /\ handlers' =
                                (n :> Handler("optionIntArrayHandler",
                                              optionRequiredArg, FALSE,
                                              a[2].v))]_vars

\* the registry binds two different option names, not the two names of
\* one negatable flag, to one destination
NegatableNames(k1, k2) ==
    /\ k2 = <<"n", "o">> \o k1
    /\ handlers[k1] = FlagHandler(TRUE, handlers[k1].option)
    /\ handlers[k2] = FlagHandler(FALSE, handlers[k1].option)

\* the registry binds two different option names, not the two names of
\* one negatable flag, to one destination
SharedDestination ==
    \E k1 \in DOMAIN handlers, k2 \in DOMAIN handlers :
        /\ k1 # k2
        /\ handlers[k1].option = handlers[k2].option
        /\ ~NegatableNames(k1, k2)
        /\ ~NegatableNames(k2, k1)

\* C19: a call whose option list binds two different option names to the
\* same destination pointer returns an error and modifies nothing.
C19_SharedPointerRejected ==
    (pc = "done" /\ SharedDestination) => (err # "nil" /\ mem = Mem0)

\* the destination a handler stores through: the pointer with its variable
DestOf(h) == CHOOSE p \in SupportedPointers : p.v = h.option

\* the arities a destination of kind and sequence-ness of p can have
Arities(p) ==
    CASE SequenceDest(p) -> {optionRequiredArg}
      [] ElementKind(p) = "b" -> {optionNoArg}
      [] ElementKind(p) = "i" ->
           {optionNoArg, optionRequiredArg, optionOptionalArg}
      [] OTHER -> {optionRequiredArg, optionOptionalArg}

\* the arity of the dispatch table for the descriptor d on the pointer p
TableArity(d, p) ==
    CASE ElementKind(p) = "b" -> optionNoArg
      [] IsCounting(d) -> optionNoArg
      [] SequenceDest(p) -> optionRequiredArg
      [] IsOptional(d) -> optionOptionalArg
      [] OTHER -> optionRequiredArg

\* C20: every accepted registration gets the arity of the dispatch table:
\* a plain boolean, both names of a negatable boolean and a counting
\* integer are noArg; a scalar integer, float or text without ':' is
\* requiredArg and with ':' optionalArg; a sequence of integer, float or
\* text is requiredArg.  No other combination of destination kind and
\* arity is ever in the registry.
C20_ArityTable ==
    /\ [](\A k \in DOMAIN handlers :
             handlers[k].t \in Arities(DestOf(handlers[k])))
    /\ [][(TakesPair /\ Accepts) =>
            LET n == DescName(a[1].v)
                added == DOMAIN handlers' \ DOMAIN handlers
            IN  /\ added = IF IsNegatable(a[1].v)
                           THEN {n, <<"n", "o">> \o n} ELSE {n}
                /\ \A k \in added :
                       /\ handlers'[k].t = TableArity(a[1].v, a[2])
                       /\ handlers'[k].option = a[2].v
                       /\ (handlers'[k].h = "optionCountingHandler")
                             <=> IsCounting(a[1].v)]_vars

\* C20 witness: a call that registered the optional text option "f:s" and
\* the integer sequence "nof=i@" has returned.
C20_Witness ==
    /\ Succeeded
    /\ DOMAIN handlers = {<<"f">>, <<"n", "o", "f">>}
    /\ handlers[<<"f">>] =
          Handler("optionStringHandler", optionOptionalArg, FALSE,
                  "stringValue")
    /\ handlers[<<"n", "o", "f">>] =
          Handler("optionIntArrayHandler", optionRequiredArg, FALSE,
                  "intArray")

\* the number of pending increments of the destination d
Increments(d) ==
    Cardinality({i \in 1..Len(committers) :
                    committers[i].c = "counting" /\ committers[i].option = d})

\* the token tok is an occurrence "--n" or "--n=..." of a registered
\* counting option, whose destination is d
CountingOccurrence(tok, d) ==
    \E n \in NamesIn(tok) :
        /\ PlainOpt(tok, n) \/ \E v \in ValuesIn(tok) : InlineOpt(tok, n, v)
        /\ n \in DOMAIN handlers
        /\ handlers[n].h = "optionCountingHandler"
        /\ handlers[n].option = d

\* C21: a counting option "N+" on an integer increments it by one per
\* occurrence.  Every consumed occurrence of "--N", and nothing else, adds
\* one pending increment of the destination, and after a successful call
\* with k of them the destination is its pre-call value plus k: it is
\* not reset to zero and not set to k.
C21_CountingIncrements ==
    /\ [](Succeeded =>
            \A n \in DOMAIN handlers :
                handlers[n].h = "optionCountingHandler" =>
                    mem[handlers[n].option] =
                        Mem0[handlers[n].option]
                            + Increments(handlers[n].option))
    /\ [][Scanning =>
            \A d \in DOMAIN Mem0 :
                Increments(d)' =
                    IF pc' = "processArgs" /\ CountingOccurrence(rest[1], d)
                    THEN Increments(d) + 1 ELSE Increments(d)]_vars

\* C21 witness: "--f --f" with "f+" on the integer that held 7 has made
\* it 9.
C21_Witness ==
    /\ Succeeded
    /\ args = << <<"-", "-", "f">>, <<"-", "-", "f">> >>
    /\ handlers[<<"f">>].h = "optionCountingHandler"
    /\ handlers[<<"f">>].option = "intValue"
    /\ Mem0.intValue = 7
    /\ mem.intValue = 9

\* the errors parseOptions returns
RegistrationErrors ==
    {"descriptor not understood", "descriptor must be string",
     "type not recognized", "descriptor type mismatch",
     "option already exists", "odd number of arguments"}

\* C22: when an element of the option list fails registration (malformed
\* descriptor, descriptor that is no string, unsupported destination, type
\* mismatch, name conflict, odd number of elements), GetOptions returns
\* that error with the original token list and without scanning a token:
\* no destination is modified, also not those of pairs registered before
\* the failing one and also when the tokens name their options.
C22_RegistrationFailure ==
    /\ []((pc = "done" /\ err \in RegistrationErrors) =>
            /\ ret = args
            /\ mem = Mem0
            /\ committers = <<>>
            /\ rest = <<>>)
    /\ [][/\ err' \in RegistrationErrors => pc = "parseOptions"
          /\ (pc = "parseOptions" /\ pc' = "done")
                => err' \in RegistrationErrors]_vars

\* C22 witness: the flag f was registered, the next descriptor was no
\* string, and the call of "--f" returned the error with f's destination
\* as it was.
C22_Witness ==
    /\ pc = "done"
    /\ err = "descriptor must be string"
    /\ args = << <<"-", "-", "f">> >>
    /\ ret = args
    /\ handlers[<<"f">>].option = "boolValue"
    /\ mem.boolValue = FALSE

\* descriptors in the Getopt::Long forms that are not implemented: an
\* alias, a hash, a value count, a range of counts, a default value, a
\* counting default
UnimplementedForms ==
    { <<"v", "|", "w", "=", "s">>,
      <<"v", "=", "s", "%">>,
      <<"v", "=", "i", "{", "2", "}">>,
      <<"v", "=", "i", "{", "1", ",", "3", "}">>,
      <<"v", ":", "1", "0">>,
      <<"v", ":", "+", "i">> }

\* tok is a short option token: one hyphen, then something else
ShortOption(tok) == Len(tok) >= 2 /\ tok[1] = "-" /\ tok[2] # "-"

\* C23: the Getopt::Long forms that are not implemented are never
\* silently accepted.  A descriptor declaring an alias, a hash, a value
\* count or a default value is rejected as malformed ('descriptor not
\* understood') for every destination, and a single-hyphen short option
\* token is never consumed as an option: the scan stops at it and it
\* stays in the remainder.
C23_UnimplementedForms ==
    [][/\ (TakesPair /\ a[1].v \in UnimplementedForms)
             => /\ pc' = "done"
                /\ err' = "descriptor not understood"
                /\ handlers' = handlers
                /\ mem' = Mem0
       /\ (Scanning /\ ShortOption(rest[1]))
             => /\ pc' = "done"
                /\ err' = "nil"
                /\ ret' = rest
                /\ committers' = committers]_vars

\* C23 witness: the value-count descriptor "v=i{2}" on a *[]int was
\* rejected as malformed.
C23_Witness ==
    /\ pc = "done"
    /\ err = "descriptor not understood"
    /\ a = <<String(<<"v", "=", "i", "{", "2", "}">>),
             Pointer("*[]int", "intArray")>>
    /\ a[1].v \in UnimplementedForms
    /\ handlers = <<>>

\* with the flag f registered, the call of "-f" has returned "-f" as the
\* remainder and f's destination as it was
ShortOptionLeft ==
    /\ Succeeded
    /\ args = << <<"-", "f">> >>
    /\ ret = args
    /\ <<"f">> \in DOMAIN handlers
    /\ handlers[<<"f">>] = FlagHandler(TRUE, "boolValue")
    /\ mem.boolValue = FALSE

\* C24: GetOSOptions runs GetOptions on os.Args[1:]; on success
\* os.Args[1:] afterwards is the remainder GetOptions returned, and on
\* error os.Args is left exactly as it was and the error is returned.
C24_OSArgsTail ==
    /\ [](pc # "returned" => args = SliceFrom(osArgs, 1))
    /\ [][pc' = "returned" =>
            IF err = "nil"
            THEN SliceFrom(osArgs', 1) = ret
            ELSE osArgs' = osArgs /\ err' = err]_vars

\* C24 witness: GetOSOptions has returned from "--f --v 1 x" with the
\* flag and the integer option registered: os.Args[1:] is "x".
C24_Witness ==
    /\ pc = "returned"
    /\ err = "nil"
    /\ args = << <<"-", "-", "f">>, <<"-", "-", "v">>, <<"1">>, <<"x">> >>
    /\ SliceFrom(osArgs, 1) = << <<"x">> >>
    /\ mem.intValue = 1

\* the loop of processArgs is about to end: no token is left, or the next
\* token is no option, or it is the marker "--"
LoopEnds == rest = <<>> \/ ~StartsWithDD(rest[1]) \/ rest[1] = DD

\* C25: deferred mutation.  In every state of a call before the final
\* commit step, during registration and during the whole scan, every
\* destination holds its pre-call value, whatever the handlers have queued;
\* a destination changes only in the step that ends the scan loop without
\* an error, and a call that returned an error has changed none.
C25_DeferredMutation ==
    /\ []((pc # "done" \/ err # "nil") => mem = Mem0)
    /\ [][mem' # mem =>
            /\ pc = "processArgs"
            /\ LoopEnds
            /\ pc' = "done"
            /\ err' = "nil"
            /\ mem' = commit(committers, mem)]_vars

\* C25 witness: in the middle of a scan the handlers have queued updates
\* that will change a destination, and every destination is as before
\* the call.
C25_Witness ==
    /\ Scanning
    /\ Len(committers) >= 2
    /\ commit(committers, Mem0) # Mem0
    /\ mem = Mem0

\* the step consumes the option token and the token after it, and queues
\* for the option n the update with that token converted to n's kind; or,
\* the token not being convertible, the call fails
ConsumesNext(n) ==
    IF Converted(handlers[n], rest[2]).err # "nil"
    THEN FailsWith("invalid syntax")
    ELSE /\ pc' = "processArgs"
         /\ rest' = SliceFrom(rest, 2)
         /\ AppendedFor(n)
         /\ committers'[Len(committers')].value =
                Converted(handlers[n], rest[2]).v

\* C26: a required-argument option with no inline value always consumes
\* the next token as its value, also when that token begins with "--",
\* names a registered option or is the marker "--"; the consumed token is
\* not scanned as an option (a text option stores it verbatim).
C26_RequiredConsumesNext ==
    [][Scanning =>
         \A n \in NamesIn(rest[1]) :
             (/\ PlainOpt(rest[1], n)
              /\ n \in DOMAIN handlers
              /\ handlers[n].t = optionRequiredArg
              /\ Len(rest) >= 2)
             => ConsumesNext(n)]_vars

\* C26 witness: "--v --f" with v a required text option and f a counting
\* option: "--f" was stored in v's destination and f's was not
\* incremented.
C26_Witness ==
    /\ Succeeded
    /\ args = << <<"-", "-", "v">>, <<"-", "-", "f">> >>
    /\ handlers[<<"v">>].h = "optionStringHandler"
    /\ handlers[<<"v">>].t = optionRequiredArg
    /\ handlers[<<"f">>].h = "optionCountingHandler"
    /\ mem.stringValue = <<"-", "-", "f">>
    /\ mem.intValue = Mem0.intValue
    /\ ret = <<>>

\* C27: an optional-argument option with no inline value that is followed
\* by a token not beginning with "--" always consumes that token as its
\* value; if the token cannot be converted to the option's kind the whole
\* call fails with the conversion error and the original token list: the
\* zero value is not stored and the token is not left in the remainder.
C27_OptionalConsumesNext ==
    [][Scanning =>
         \A n \in NamesIn(rest[1]) :
             (/\ PlainOpt(rest[1], n)
              /\ n \in DOMAIN handlers
              /\ handlers[n].t = optionOptionalArg
              /\ Len(rest) >= 2
              /\ ~StartsWithDD(rest[2]))
             => ConsumesNext(n)]_vars

\* C27 witness: "--v x" with v an optional integer option has failed with
\* the conversion error, the token list returned whole and nothing
\* stored.
C27_Witness ==
    /\ pc = "done"
    /\ err = "invalid syntax"
    /\ args = << <<"-", "-", "v">>, <<"x">> >>
    /\ handlers[<<"v">>].h = "optionIntHandler"
    /\ handlers[<<"v">>].t = optionOptionalArg
    /\ ret = args
    /\ mem = Mem0

\* the pair is rejected with the error e and nothing is registered
Rejected(e) == pc' = "done" /\ err' = e /\ handlers' = handlers

\* a name the descriptor d would register is in the registry
NameTaken(d) ==
    \/ DescName(d) \in DOMAIN handlers
    \/ IsNegatable(d) /\ (<<"n", "o">> \o DescName(d)) \in DOMAIN handlers

\* C28: the registration checks of a pair run in a fixed order: the
\* descriptor grammar, then the destination shape, then the type
\* reconciliation, then the name conflict; the first that fails gives the
\* error.  A descriptor that does not match the grammar is always
\* reported as 'descriptor not understood', whatever the destination and
\* whatever is registered.
C28_CheckOrder ==
    [][TakesPair =>
         IF ~IsDescriptor(a[1].v) THEN Rejected("descriptor not understood")
         ELSE IF ~SupportedDest(a[2]) THEN Rejected("type not recognized")
         ELSE IF ~Compatible(a[1].v, a[2])
              THEN Rejected("descriptor type mismatch")
         ELSE IF NameTaken(a[1].v) THEN Rejected("option already exists")
         ELSE Accepts]_vars

\* C28 witness: with the name v registered, the descriptor "v=i{2}" on a
\* pointer of an unsupported type was reported as 'descriptor not
\* understood'.
C28_Witness ==
    /\ pc = "done"
    /\ err = "descriptor not understood"
    /\ DOMAIN handlers = {<<"v">>}
    /\ a = <<String(<<"v", "=", "i", "{", "2", "}">>),
             Pointer("*uint", "uintValue")>>

\* no token of the call names the flag f
NoFlagToken == \A i \in 1..Len(args) : args[i] # DD \o <<"f">>

\* C29: successive GetOptions calls share no state: each call starts with
\* an empty registry and an empty list of pending updates, so that a name
\* registered by an earlier call never conflicts, the pending updates of a
\* call are never more than the tokens it has consumed, and a call whose
\* tokens do not name the flag leaves the flag's variable as it was, also
\* after a call that failed with an update of the flag pending.
C29_CallsShareNoState ==
    /\ [](err # "option already exists")
    /\ [](pc = "processArgs" => Len(committers) <= Len(args) - Len(rest))
    /\ [][/\ ((pc = "done" /\ pc' = "parseOptions")
                => (handlers' = <<>> /\ committers' = <<>>))
           /\ ((pc = "processArgs" /\ pc' = "done" /\ NoFlagToken)
                => (mem'.boolValue = mem.boolValue))]_vars

\* C29 witness: a second call registered f and v again, stored the value
\* of its only token "--v=1" and left the flag's variable unset.
C29_Witness ==
    /\ calls = 2
    /\ pc = "done"
    /\ err = "nil"
    /\ {<<"f">>, <<"v">>} \subseteq DOMAIN handlers
    /\ args = <<DD \o <<"v", "=", "1">>>>
    /\ mem.intValue = 1
    /\ mem.boolValue = FALSE

\* C30: the scan loop terminates: every pass that neither stops nor fails
\* takes one or two tokens off the front of rest and queues one update, so
\* the passes made are never more than the tokens consumed, and every call
\* ends, with the tokens left over and no error or with an error.
C30_ScanTerminates ==
    /\ [][(pc = "processArgs" /\ pc' = "processArgs")
             => /\ Len(rest) - Len(rest') \in {1, 2}
                /\ IsSuffix(rest', rest)
                /\ Len(committers') = Len(committers) + 1]_vars
    /\ [](pc = "processArgs" => Len(committers) <= Len(args) - Len(rest))
    /\ <>(pc = "done")

\* C30 witness: "--f", "--v", "1", "x" was scanned in two passes, of one
\* and of two tokens, and the call ended with "x" left over.
C30_Witness ==
    /\ pc = "done"
    /\ err = "nil"
    /\ args = <<DD \o <<"f">>, DD \o <<"v">>, <<"1">>, <<"x">>>>
    /\ Len(committers) = 2
    /\ ret = <<<<"x">>>>

\* the step from here handled the option n with the one value v: the
\* update queued for n holds v converted to n's kind
HandledWith(n, v) ==
    /\ Converted(handlers[n], v).err = "nil"
    /\ AppendedFor(n)
    /\ committers'[Len(committers')].value = Converted(handlers[n], v).v

\* C31: a required-argument handler is never invoked with an empty value
\* list.  Whenever a pass of the scan loop handles a required-argument
\* option, exactly one value was supplied, the inline value of the token or
\* the next token, and the update queued holds that value converted; so
\* no call ends in the index-out-of-range failure of a sequence handler,
\* and no required scalar gets the zero value for want of a value.
C31_RequiredGetsOneValue ==
    /\ [](err # "panic: index out of range")
    /\ [][(Scanning /\ pc' = "processArgs") =>
             \A n \in NamesIn(rest[1]) :
                 (/\ n \in DOMAIN handlers
                  /\ handlers[n].t = optionRequiredArg)
                 => /\ PlainOpt(rest[1], n)
                       => /\ Len(rest) >= 2
                          /\ rest' = SliceFrom(rest, 2)
                          /\ HandledWith(n, rest[2])
                    /\ \A v \in ValuesIn(rest[1]) :
                          InlineOpt(rest[1], n, v)
                          => /\ rest' = Tail(rest)
                             /\ HandledWith(n, v)]_vars

\* C31 witness: the required integer sequence option v, given as "--v"
\* before "-1", got -1 appended.
C31_Witness ==
    /\ pc = "done"
    /\ err = "nil"
    /\ args = <<DD \o <<"v">>, <<"-", "1">>>>
    /\ <<"v">> \in DOMAIN handlers
    /\ handlers[<<"v">>].h = "optionIntArrayHandler"
    /\ handlers[<<"v">>].t = optionRequiredArg
    /\ mem.intArray = <<7, -1>>

\* the token tok is an occurrence of the option name n, with or without
\* an inline value
Names(tok, n) ==
    \/ PlainOpt(tok, n)
    \/ \E v \in ValuesIn(tok) : InlineOpt(tok, n, v)

\* one of the tokens consumed by the call that has returned is an
\* occurrence of an option name bound to the destination d
ConsumedNameOf(d) ==
    \E i \in 1..(Len(args) - Len(ret)) : \E n \in NamesIn(args[i]) :
        /\ n \in DOMAIN handlers
        /\ handlers[n].option = d
        /\ Names(args[i], n)

\* C32: after a successful call a destination differs from its value
\* before the call only if one of the option names bound to it occurred
\* among the consumed tokens; every other destination, also one whose
\* option occurs only after the stop point or after "--", keeps its value.
C32_FrameOfSuccess ==
    Succeeded => \A d \in DOMAIN mem : mem[d] # Mem0[d] => ConsumedNameOf(d)

\* C32 witness: of "--f", "x", "--v=1" the flag was consumed and stored,
\* and v, named only after the stop point, kept its value.
C32_Witness ==
    /\ Succeeded
    /\ args = <<DD \o <<"f">>, <<"x">>, DD \o <<"v", "=", "1">>>>
    /\ ret = <<<<"x">>, DD \o <<"v", "=", "1">>>>
    /\ <<"v">> \in DOMAIN handlers
    /\ handlers[<<"v">>].option = "intValue"
    /\ mem.boolValue = TRUE
    /\ mem.intValue = Mem0.intValue

\* C33: a successful GetOSOptions call leaves os.Args[0], the program
\* name, unchanged: only the elements after index 0 are replaced by the
\* remainder.
C33_ProgramNameKept ==
    [][(pc' = "returned" /\ err' = "nil") =>
         /\ osArgs'[1] = osArgs[1]
         /\ osArgs' = <<ProgramName>> \o ret]_vars

\* C34: GetOSOptions completes without a runtime failure for every
\* os.Args that holds at least the program name; with no argument after
\* the program name and an option list that registers, it returns nil and
\* os.Args afterwards is exactly the program name.
C34_NoArgumentsNoFailure ==
    /\ err # "panic: index out of range"
    /\ (pc = "returned" /\ args = <<>> /\ err \notin RegistrationErrors)
        => (err = "nil" /\ osArgs = <<ProgramName>>)

\* C35: the descriptor pattern is compiled once and cached: after the
\* first call of descRe the cached pattern variable is not nil and every
\* later call returns it without compiling again, so that over any
\* sequence of registrations the pattern is compiled at most once.
C35_CompiledOnce ==
    /\ compiled <= 1
    /\ compiled >= 1 => re # "nil"

====
